---------------------------- MODULE Spec2Model ----------------------------
(***************************************************************************)
(* State-machine model of the contract FheAsAServiceFHE                    *)
(* (src/frontend/web/src/App.tsx, lines 720-972): access registry, rate    *)
(* limiter, batch ledger, aggregation fold and the request/callback        *)
(* decryption protocol.                                                    *)
(*                                                                         *)
(* One action per external function.  A call that reverts rolls every      *)
(* storage write back, so a failing call changes only lastCall, the record *)
(* of the most recent transaction: function, msg.sender, request id, the   *)
(* verdict of FHE.checkSignatures on the proof it carried (TRUE when it    *)
(* carries none), the error it reverted with or "ok", the event it emitted *)
(* (args: the arguments of BatchOpened and DataSubmitted),                 *)
(* and, for a callback that directly follows a callback for the same       *)
(* request id, that earlier callback's outcome (retryOf).                  *)
(***************************************************************************)
EXTENDS Integers, Sequences, FiniteSets, TLC

\* ------------------------------------------------------------------ bounds
NumActors == 2          \* addresses 1..NumActors
MaxData == 2            \* contributions admitted in a run
MaxBatch == 2           \* largest currentBatchId reached
MaxRequests == 2        \* decryption requests the oracle accepts in a run
MaxTicks == 2           \* block.timestamp advances at most this many times
UintMax == 1000         \* largest uint256 word, scaled to the modelled time range

Actors == 1..NumActors

\* ------------------------------------------------------- program constants
Deployer == 1           \* msg.sender of the constructor
DefaultCooldown == 60   \* uint256 public cooldownSeconds = 60
Threshold == 100        \* average.ge(FHE.asEuint32(100))
ThisAddress == 7        \* address(this)

\* Block timestamps are modelled at the granularity of the default cooldown.
TimeStep == DefaultCooldown

\* block.timestamp of the constructor's block: a chain's clock is beyond the
\* default cooldown, so the model starts one time step after zero.
DeployTime == TimeStep

MaxTime == DeployTime + MaxTicks * TimeStep

VARIABLES
    owner,
    isProvider,
    lastSubmissionTime,
    lastDecryptionRequestTime,
    cooldownSeconds,
    paused,
    currentBatchId,
    batchOpen,
    decryptionContexts,
    encryptedData,
    encryptedFlags,
    dataCount,
    now,                \* block.timestamp
    nextRequestId,      \* the decryption oracle's request counter
    events,             \* log of DecryptionRequested / DecryptionCompleted, each
                        \* with the ledger size (dataCount) when it was emitted
    lastCall

storage == <<owner, isProvider, lastSubmissionTime, lastDecryptionRequestTime,
             cooldownSeconds, paused, currentBatchId, batchOpen,
             decryptionContexts, encryptedData, encryptedFlags, dataCount>>

vars == <<owner, isProvider, lastSubmissionTime, lastDecryptionRequestTime,
          cooldownSeconds, paused, currentBatchId, batchOpen,
          decryptionContexts, encryptedData, encryptedFlags, dataCount,
          now, nextRequestId, events, lastCall>>

\* ------------------------------------------------- FHE library: handles
\* A ciphertext handle is a bytes32.  The library derives the handle of an
\* operation's result by hashing the operator and the operand handles, so a
\* handle is modelled as the prefix-coded expression that produced it; the
\* zero handle (an uninitialized euint32 / ebool) is the empty sequence.
ZeroHandle == <<>>
TagTrivial == 1
TagInput == 2
OpAdd == 3
OpOr == 4
OpDiv == 5
OpGe == 6
TagHash == 9

\* Handles a caller can pass to submitEncryptedData.
InputHandles == {ZeroHandle, <<TagInput, 1>>}

\* x.isInitialized(): the handle is not bytes32(0).
IsInitialized(x) == x # ZeroHandle

\* FHE.asEuint32(v) / FHE.asEbool(b): trivial encryption of a plaintext.
FheAsEuint32(v) == <<TagTrivial, v>>

FheAsEbool(b) == <<TagTrivial, IF b THEN 1 ELSE 0>>

\* A binary operation replaces an uninitialized operand by the trivial
\* encryption of zero before hashing.
FheOperand(x) == IF IsInitialized(x) THEN x ELSE FheAsEuint32(0)

FheAdd(a, b) == <<OpAdd>> \o FheOperand(a) \o FheOperand(b)

FheOr(a, b) == <<OpOr>> \o FheOperand(a) \o FheOperand(b)

FheDiv(a, b) == <<OpDiv>> \o FheOperand(a) \o FheOperand(b)

FheGe(a, b) == <<OpGe>> \o FheOperand(a) \o FheOperand(b)

\* A mapping read: the stored handle, or the zero handle of an unwritten slot.
ReadSlot(m, i) == IF i \in DOMAIN m THEN m[i] ELSE ZeroHandle


\* ------------------------------------------------------ aggregation fold
\* The loop of requestAggregateDecryption and of myCallback, unrolled over
\* ids 1..n in ascending order.
RECURSIVE FoldSum(_, _)
FoldSum(data, n) ==
    IF n = 0 THEN FheAsEuint32(0)
    ELSE FheAdd(FoldSum(data, n - 1), ReadSlot(data, n))

RECURSIVE FoldCount(_)
FoldCount(n) ==
    IF n = 0 THEN FheAsEuint32(0)
    ELSE FheAdd(FoldCount(n - 1), FheAsEuint32(1))

RECURSIVE FoldAnyFlag(_, _)
FoldAnyFlag(flags, n) ==
    IF n = 0 THEN FheAsEbool(FALSE)
    ELSE FheOr(FoldAnyFlag(flags, n - 1), ReadSlot(flags, n))

\* Mutation: the quotient is taken the other way round.
FoldAverageSwapped(data, n) == FheDiv(FoldCount(n), FoldSum(data, n))

FoldAverage(data, n) == FheDiv(FoldSum(data, n), FoldCount(n))

FoldIsAverageHigh(data, n) == FheGe(FoldAverage(data, n), FheAsEuint32(Threshold))

\* cts[0] = average, cts[1] = anyFlagTrue, cts[2] = isAverageHigh.
FoldCiphertexts(data, flags, n) ==
    <<FoldAverage(data, n), FoldAnyFlag(flags, n), FoldIsAverageHigh(data, n)>>

\* keccak256(abi.encode(cts, address(this))): collision-free, never the zero
\* word; modelled as the tagged, length-prefixed encoding itself.
ZeroHash == <<>>

\* Mutation: the commitment also covers the batch id and the open flag.
HashWithBatch(cts) ==
    <<TagHash, Len(cts)>> \o cts[1] \o cts[2] \o cts[3]
        \o <<ThisAddress, currentBatchId, IF batchOpen THEN 1 ELSE 0>>

\* Mutation: the commitment covers only the contract address.
HashAddressOnly(cts) == <<TagHash, Len(cts), ThisAddress>>

HashCiphertexts(cts) ==
    <<TagHash, Len(cts)>> \o cts[1] \o cts[2] \o cts[3] \o <<ThisAddress>>

CurrentStateHash == HashCiphertexts(FoldCiphertexts(encryptedData, encryptedFlags, dataCount))

\* ------------------------------------------------------------- modifiers
\* Mutation: the gate compares with the deployer, not the current owner.
OnlyOwnerDeployer(sender) == sender = Deployer

OnlyOwner(sender) == sender = owner

OnlyProvider(sender) == isProvider[sender]

\* Mutation: the modifier lets every call through.
WhenNotPausedOff == TRUE

WhenNotPaused == ~paused

\* Checked uint256 addition: a + b reverts with Panic(0x11) on overflow.
AddOverflows(a, b) == a > UintMax - b

\* Mutation: a zero timer is taken to mean "never called".
CooldownActiveUnlessFirst(last) == last # 0 /\ now < last + cooldownSeconds

\* Mutation: the boundary instant still counts as cooling down.
CooldownActiveLax(last) == now <= last + cooldownSeconds

\* block.timestamp < last + cooldownSeconds
CooldownActive(last) == now < last + cooldownSeconds

CooldownResult(last) ==
    IF AddOverflows(last, cooldownSeconds) THEN "Panic"
    ELSE IF CooldownActive(last) THEN "CooldownActive"
    ELSE "ok"

SubmissionCooldown(submitter) == CooldownResult(lastSubmissionTime[submitter])

\* Mutation: the request path reads the submission timer.
DecryptionRequestCooldownShared(requester) == CooldownResult(lastSubmissionTime[requester])

DecryptionRequestCooldown(requester) == CooldownResult(lastDecryptionRequestTime[requester])

\* FHE.isInitialized(): the contract is a SepoliaConfig, whose constructor
\* configures the FHE coprocessor.
FheInitialized == TRUE

\* _initIfNeeded(x): reverts when x is initialized, or when the FHE
\* subsystem is not.
InitIfNeeded(x) ==
    IF IsInitialized(x) THEN "AlreadyInitialized"
    ELSE IF ~FheInitialized THEN "NotInitialized"
    ELSE "ok"

\* The record of a transaction.
Call(op, sender, requestId, result, emitted) ==
    [op |-> op, sender |-> sender, requestId |-> requestId, proofOk |-> TRUE,
     retryOf |-> "none",
     result |-> result, emitted |-> IF result = "ok" THEN emitted ELSE "none",
     args |-> <<>>]

\* A reverted transaction: no storage write and no event survives.
Revert(op, sender, requestId, result) ==
    /\ lastCall' = Call(op, sender, requestId, result, "none")
    /\ UNCHANGED <<storage, now, nextRequestId, events>>

DefaultContext == [batchId |-> 0, stateHash |-> ZeroHash, processed |-> FALSE]

\* ------------------------------------------------------------------ Init
Init ==
    /\ owner = Deployer
    /\ isProvider = [a \in Actors |-> a = Deployer]
    /\ lastSubmissionTime = [a \in Actors |-> 0]
    /\ lastDecryptionRequestTime = [a \in Actors |-> 0]
    /\ cooldownSeconds = DefaultCooldown
    /\ paused = FALSE
    /\ currentBatchId = 1
    /\ batchOpen = FALSE
    /\ decryptionContexts = [r \in 0..MaxRequests |-> DefaultContext]
    /\ encryptedData = <<>>
    /\ encryptedFlags = <<>>
    /\ dataCount = 0
    /\ now = DeployTime
    /\ nextRequestId = 1
    /\ events = <<>>
    /\ lastCall = Call("constructor", Deployer, 0, "ok", "ProviderAdded")

\* ------------------------------------------------------- access registry
\* Mutation: the new owner is also made a provider.
TransferOwnershipGrants(sender, newOwner) ==
    IF ~OnlyOwner(sender) THEN Revert("transferOwnership", sender, 0, "NotOwner")
    ELSE /\ owner' = newOwner
         /\ isProvider' = [isProvider EXCEPT ![newOwner] = TRUE]
         /\ lastCall' = Call("transferOwnership", sender, 0, "ok", "OwnershipTransferred")
         /\ UNCHANGED <<lastSubmissionTime, lastDecryptionRequestTime,
                        cooldownSeconds, paused, currentBatchId, batchOpen,
                        decryptionContexts, encryptedData, encryptedFlags, dataCount,
                        now, nextRequestId, events>>

TransferOwnership(sender, newOwner) ==
    IF ~OnlyOwner(sender) THEN Revert("transferOwnership", sender, 0, "NotOwner")
    ELSE /\ owner' = newOwner
         /\ lastCall' = Call("transferOwnership", sender, 0, "ok", "OwnershipTransferred")
         /\ UNCHANGED <<isProvider, lastSubmissionTime, lastDecryptionRequestTime,
                        cooldownSeconds, paused, currentBatchId, batchOpen,
                        decryptionContexts, encryptedData, encryptedFlags, dataCount,
                        now, nextRequestId, events>>

\* Mutation: ProviderAdded is emitted outside the membership test.
AddProviderAlwaysEmits(sender, provider) ==
    IF ~OnlyOwner(sender) THEN Revert("addProvider", sender, 0, "NotOwner")
    ELSE /\ isProvider' = [isProvider EXCEPT ![provider] = TRUE]
         /\ lastCall' = Call("addProvider", sender, 0, "ok", "ProviderAdded")
         /\ UNCHANGED <<owner, lastSubmissionTime, lastDecryptionRequestTime,
                        cooldownSeconds, paused, currentBatchId, batchOpen,
                        decryptionContexts, encryptedData, encryptedFlags, dataCount,
                        now, nextRequestId, events>>

AddProvider(sender, provider) ==
    IF ~OnlyOwner(sender) THEN Revert("addProvider", sender, 0, "NotOwner")
    ELSE /\ isProvider' = [isProvider EXCEPT ![provider] = TRUE]
         /\ lastCall' = Call("addProvider", sender, 0, "ok",
                             IF ~isProvider[provider] THEN "ProviderAdded" ELSE "none")
         /\ UNCHANGED <<owner, lastSubmissionTime, lastDecryptionRequestTime,
                        cooldownSeconds, paused, currentBatchId, batchOpen,
                        decryptionContexts, encryptedData, encryptedFlags, dataCount,
                        now, nextRequestId, events>>

RemoveProvider(sender, provider) ==
    IF ~OnlyOwner(sender) THEN Revert("removeProvider", sender, 0, "NotOwner")
    ELSE /\ isProvider' = [isProvider EXCEPT ![provider] = FALSE]
         /\ lastCall' = Call("removeProvider", sender, 0, "ok",
                             IF isProvider[provider] THEN "ProviderRemoved" ELSE "none")
         /\ UNCHANGED <<owner, lastSubmissionTime, lastDecryptionRequestTime,
                        cooldownSeconds, paused, currentBatchId, batchOpen,
                        decryptionContexts, encryptedData, encryptedFlags, dataCount,
                        now, nextRequestId, events>>

\* Values the owner passes to setCooldown.
CooldownChoices == {0, DefaultCooldown, UintMax}

SetCooldown(sender, newCooldownSeconds) ==
    IF ~OnlyOwner(sender) THEN Revert("setCooldown", sender, 0, "NotOwner")
    ELSE /\ cooldownSeconds' = newCooldownSeconds
         /\ lastCall' = Call("setCooldown", sender, 0, "ok", "CooldownSet")
         /\ UNCHANGED <<owner, isProvider, lastSubmissionTime, lastDecryptionRequestTime,
                        paused, currentBatchId, batchOpen,
                        decryptionContexts, encryptedData, encryptedFlags, dataCount,
                        now, nextRequestId, events>>

\* Mutation: pause lacks whenNotPaused.
PauseResultNoGate(sender) == IF ~OnlyOwner(sender) THEN "NotOwner" ELSE "ok"

PauseResult(sender) ==
    IF ~OnlyOwner(sender) THEN "NotOwner"
    ELSE IF ~WhenNotPaused THEN "Paused"
    ELSE "ok"

Pause(sender) ==
    IF PauseResult(sender) # "ok" THEN Revert("pause", sender, 0, PauseResult(sender))
    ELSE /\ paused' = TRUE
         /\ lastCall' = Call("pause", sender, 0, "ok", "ContractPaused")
         /\ UNCHANGED <<owner, isProvider, lastSubmissionTime, lastDecryptionRequestTime,
                        cooldownSeconds, currentBatchId, batchOpen,
                        decryptionContexts, encryptedData, encryptedFlags, dataCount,
                        now, nextRequestId, events>>

Unpause(sender) ==
    IF ~OnlyOwner(sender) THEN Revert("unpause", sender, 0, "NotOwner")
    ELSE /\ paused' = FALSE
         /\ lastCall' = Call("unpause", sender, 0, "ok", "ContractUnpaused")
         /\ UNCHANGED <<owner, isProvider, lastSubmissionTime, lastDecryptionRequestTime,
                        cooldownSeconds, currentBatchId, batchOpen,
                        decryptionContexts, encryptedData, encryptedFlags, dataCount,
                        now, nextRequestId, events>>

\* ---------------------------------------------------------- batch ledger
OpenBatchResult(sender) ==
    IF ~OnlyOwner(sender) THEN "NotOwner"
    ELSE IF ~WhenNotPaused THEN "Paused"
    ELSE "ok"

\* Mutation: the batch id is not advanced.
OpenedBatchIdKept == currentBatchId

\* Mutation: every openBatch advances the batch id.
OpenedBatchIdAlways == currentBatchId + 1

\* if (batchOpen) currentBatchId++ : the id of the batch being opened.
OpenedBatchId == IF batchOpen THEN currentBatchId + 1 ELSE currentBatchId

OpenBatch(sender) ==
    IF OpenBatchResult(sender) # "ok" THEN Revert("openBatch", sender, 0, OpenBatchResult(sender))
    ELSE /\ batchOpen => currentBatchId < MaxBatch
         /\ currentBatchId' = OpenedBatchId
         /\ batchOpen' = TRUE
         /\ lastCall' = [Call("openBatch", sender, 0, "ok", "BatchOpened")
                            EXCEPT !.args = <<currentBatchId'>>]
         /\ UNCHANGED <<owner, isProvider, lastSubmissionTime, lastDecryptionRequestTime,
                        cooldownSeconds, paused,
                        decryptionContexts, encryptedData, encryptedFlags, dataCount,
                        now, nextRequestId, events>>

\* Mutation: closeBatch does not check that a batch is open.
CloseBatchResultNoOpenCheck(sender) ==
    IF ~OnlyOwner(sender) THEN "NotOwner"
    ELSE IF ~WhenNotPaused THEN "Paused"
    ELSE "ok"

CloseBatchResult(sender) ==
    IF ~OnlyOwner(sender) THEN "NotOwner"
    ELSE IF ~WhenNotPaused THEN "Paused"
    ELSE IF ~batchOpen THEN "BatchClosed"
    ELSE "ok"

CloseBatch(sender) ==
    IF CloseBatchResult(sender) # "ok" THEN Revert("closeBatch", sender, 0, CloseBatchResult(sender))
    ELSE /\ batchOpen' = FALSE
         /\ lastCall' = Call("closeBatch", sender, 0, "ok", "BatchClosed")
         /\ UNCHANGED <<owner, isProvider, lastSubmissionTime, lastDecryptionRequestTime,
                        cooldownSeconds, paused, currentBatchId,
                        decryptionContexts, encryptedData, encryptedFlags, dataCount,
                        now, nextRequestId, events>>

\* Mutation: whenNotPaused is placed before onlyProvider.
SubmitResultPauseFirst(sender, data, flag) ==
    IF ~WhenNotPaused THEN "Paused"
    ELSE IF ~OnlyProvider(sender) THEN "NotProvider"
    ELSE IF SubmissionCooldown(sender) # "ok" THEN SubmissionCooldown(sender)
    ELSE IF ~batchOpen THEN "BatchClosed"
    ELSE IF InitIfNeeded(data) # "ok" THEN InitIfNeeded(data)
    ELSE InitIfNeeded(flag)

\* Mutation: the body does not check that a batch is open.
SubmitResultNoBatchCheck(sender, data, flag) ==
    IF ~OnlyProvider(sender) THEN "NotProvider"
    ELSE IF ~WhenNotPaused THEN "Paused"
    ELSE IF SubmissionCooldown(sender) # "ok" THEN SubmissionCooldown(sender)
    ELSE IF InitIfNeeded(data) # "ok" THEN InitIfNeeded(data)
    ELSE InitIfNeeded(flag)

\* Modifiers run in the order written (onlyProvider, whenNotPaused,
\* submissionCooldown), then the body.
SubmitResult(sender, data, flag) ==
    IF ~OnlyProvider(sender) THEN "NotProvider"
    ELSE IF ~WhenNotPaused THEN "Paused"
    ELSE IF SubmissionCooldown(sender) # "ok" THEN SubmissionCooldown(sender)
    ELSE IF ~batchOpen THEN "BatchClosed"
    ELSE IF InitIfNeeded(data) # "ok" THEN InitIfNeeded(data)
    ELSE InitIfNeeded(flag)

\* Mutation: the counter is bumped twice.
NextDataIdSkip(count) == count + 2

\* Mutation: every contribution is stored under id 1.
NextDataIdReset(count) == 1

\* dataCount++ : the id the new contribution is stored under.
NextDataId(count) == count + 1

SubmitEncryptedData(sender, data, flag) ==
    IF SubmitResult(sender, data, flag) # "ok"
    THEN Revert("submitEncryptedData", sender, 0,
                SubmitResult(sender, data, flag))
    ELSE /\ dataCount < MaxData
         /\ dataCount' = NextDataId(dataCount)
         /\ encryptedData' = [i \in DOMAIN encryptedData \cup {dataCount'} |->
                                 IF i = dataCount' THEN data ELSE encryptedData[i]]
         /\ encryptedFlags' = [i \in DOMAIN encryptedFlags \cup {dataCount'} |->
                                 IF i = dataCount' THEN flag ELSE encryptedFlags[i]]
         /\ lastSubmissionTime' = [lastSubmissionTime EXCEPT ![sender] = now]
         /\ lastCall' = [Call("submitEncryptedData", sender, 0, "ok", "DataSubmitted")
                            EXCEPT !.args = <<sender, currentBatchId, dataCount'>>]
         /\ UNCHANGED <<owner, isProvider, lastDecryptionRequestTime,
                        cooldownSeconds, paused, currentBatchId, batchOpen,
                        decryptionContexts, now, nextRequestId, events>>

\* ------------------------------------------------ decryption coordinator
\* Mutation: the checks in the order empty batch, open batch, pause, cooldown.
RequestResultBodyFirst(sender) ==
    IF dataCount = 0 THEN "InvalidBatch"
    ELSE IF batchOpen THEN "BatchClosed"
    ELSE IF ~WhenNotPaused THEN "Paused"
    ELSE DecryptionRequestCooldown(sender)

\* Mutation: no check that the batch is closed.
RequestResultNoBatchCheck(sender) ==
    IF ~WhenNotPaused THEN "Paused"
    ELSE IF DecryptionRequestCooldown(sender) # "ok" THEN DecryptionRequestCooldown(sender)
    ELSE IF dataCount = 0 THEN "InvalidBatch"
    ELSE "ok"

RequestResult(sender) ==
    IF ~WhenNotPaused THEN "Paused"
    ELSE IF DecryptionRequestCooldown(sender) # "ok" THEN DecryptionRequestCooldown(sender)
    ELSE IF dataCount = 0 THEN "InvalidBatch"
    ELSE IF batchOpen THEN "BatchClosed"
    ELSE "ok"

\* Mutation: the oracle hands out the same request id again.
OracleSameId(id) == id

\* FHE.requestDecryption: the oracle numbers its requests consecutively.
OracleNextId(id) == id + 1

\* Mutation: the context is stored without the commitment.
NewContextNoHash(stateHash) ==
    [batchId |-> currentBatchId, stateHash |-> ZeroHash, processed |-> FALSE]

\* The context stored under the oracle's request id.
NewContext(stateHash) ==
    [batchId |-> currentBatchId, stateHash |-> stateHash, processed |-> FALSE]

RequestAggregateDecryption(sender) ==
    IF RequestResult(sender) # "ok"
    THEN Revert("requestAggregateDecryption", sender, 0, RequestResult(sender))
    ELSE /\ nextRequestId <= MaxRequests
         /\ nextRequestId' = OracleNextId(nextRequestId)
         /\ decryptionContexts' =
                [decryptionContexts EXCEPT ![nextRequestId] = NewContext(CurrentStateHash)]
         /\ lastDecryptionRequestTime' = [lastDecryptionRequestTime EXCEPT ![sender] = now]
         /\ events' = Append(events, [name |-> "DecryptionRequested",
                                      requestId |-> nextRequestId,
                                      batchId |-> currentBatchId,
                                      ledgerSize |-> dataCount,
                                      payload |-> CurrentStateHash])
         /\ lastCall' = Call("requestAggregateDecryption", sender, nextRequestId,
                             "ok", "DecryptionRequested")
         /\ UNCHANGED <<owner, isProvider, lastSubmissionTime,
                        cooldownSeconds, paused, currentBatchId, batchOpen,
                        encryptedData, encryptedFlags, dataCount, now>>

\* Cleartext payloads the oracle delivers: three 32-byte words.
Cleartexts == {<<20, 1, 0>>, <<100, 0, 1>>}

\* abi.decode(word, (uint256)) and abi.decode(word, (bool)).
DecodeUint(word) == word

DecodeBool(word) == word = 1

\* 1. replay guard, 2. state verification, 3. proof verification.
\* Mutation: no replay guard.
ReplayGuardOff(requestId) == FALSE

ReplayGuard(requestId) == decryptionContexts[requestId].processed

\* Mutation: the recomputed commitment is not compared.
StateMatchesOff(requestId) == TRUE

StateMatches(requestId) == CurrentStateHash = decryptionContexts[requestId].stateHash

\* Mutation: the proof is never verified.
CallbackResultNoProof(requestId, proofOk) ==
    IF ReplayGuard(requestId) THEN "ReplayAttempt"
    ELSE IF ~StateMatches(requestId) THEN "StateMismatch"
    ELSE "ok"

CallbackResult(requestId, proofOk) ==
    IF ReplayGuard(requestId) THEN "ReplayAttempt"
    ELSE IF ~StateMatches(requestId) THEN "StateMismatch"
    ELSE IF ~proofOk THEN "InvalidProof"
    ELSE "ok"

\* The record of a callback transaction.
CallbackCall(requestId, proofOk, result) ==
    [Call("myCallback", 0, requestId, result, "DecryptionCompleted")
        EXCEPT !.proofOk = proofOk,
               !.retryOf = IF lastCall.op = "myCallback" /\ lastCall.requestId = requestId
                           THEN lastCall.result ELSE "none"]

\* Mutation: the completion reports the batch id current at callback time.
CompletedBatchIdCurrent(requestId) == currentBatchId

\* The batch id DecryptionCompleted carries: the one stored in the context.
CompletedBatchId(requestId) == decryptionContexts[requestId].batchId

MyCallback(requestId, cleartexts, proofOk) ==
    IF CallbackResult(requestId, proofOk) # "ok"
    THEN /\ lastCall' = CallbackCall(requestId, proofOk, CallbackResult(requestId, proofOk))
         /\ UNCHANGED <<storage, now, nextRequestId, events>>
    ELSE /\ decryptionContexts' = [decryptionContexts EXCEPT ![requestId].processed = TRUE]
         /\ events' = Append(events, [name |-> "DecryptionCompleted",
                                      requestId |-> requestId,
                                      batchId |-> CompletedBatchId(requestId),
                                      ledgerSize |-> dataCount,
                                      payload |-> <<DecodeUint(cleartexts[1]),
                                                    DecodeUint(cleartexts[3]),
                                                    DecodeBool(cleartexts[2])>>])
         /\ lastCall' = CallbackCall(requestId, proofOk, "ok")
         /\ UNCHANGED <<owner, isProvider, lastSubmissionTime, lastDecryptionRequestTime,
                        cooldownSeconds, paused, currentBatchId, batchOpen,
                        encryptedData, encryptedFlags, dataCount, now, nextRequestId>>

\* ------------------------------------------------------------------ time
\* A later block: block.timestamp advances.
Tick ==
    /\ now + TimeStep <= MaxTime
    /\ now' = now + TimeStep
    /\ lastCall' = Call("block", 0, 0, "ok", "none")
    /\ UNCHANGED <<storage, nextRequestId, events>>

\* The owner switches the cooldown off.
ProtocolCooldownChoices == {0}

\* The request/callback protocol over the ledger and the batch lifecycle, with
\* the registry as constructed (owner and only provider: the deployer) and
\* every transaction in blocks of one timestamp.
ProtocolNext ==
    \/ \E s \in Actors, c \in ProtocolCooldownChoices : SetCooldown(s, c)
    \/ \E s \in Actors : Pause(s)
    \/ \E s \in Actors : Unpause(s)
    \/ \E s \in Actors : OpenBatch(s)
    \/ \E s \in Actors : CloseBatch(s)
    \/ \E s \in Actors, d \in InputHandles, f \in InputHandles :
          SubmitEncryptedData(s, d, f)
    \/ \E s \in Actors : RequestAggregateDecryption(s)
    \/ \E r \in 0..MaxRequests, c \in Cleartexts, ok \in BOOLEAN :
          MyCallback(r, c, ok)

Spec == Init /\ [][ProtocolNext]_vars

\* The access registry gating the ledger: ownership, provider set, cooldown,
\* pause and batch lifecycle around submissions, every transaction in blocks
\* of one timestamp.
AccessNext ==
    \/ \E s \in Actors, n \in Actors : TransferOwnership(s, n)
    \/ \E s \in Actors, p \in Actors : AddProvider(s, p)
    \/ \E s \in Actors, p \in Actors : RemoveProvider(s, p)
    \/ \E s \in Actors, c \in CooldownChoices : SetCooldown(s, c)
    \/ \E s \in Actors : Pause(s)
    \/ \E s \in Actors : Unpause(s)
    \/ \E s \in Actors : OpenBatch(s)
    \/ \E s \in Actors : CloseBatch(s)
    \/ \E s \in Actors, d \in InputHandles, f \in InputHandles :
          SubmitEncryptedData(s, d, f)

SpecAccess == Init /\ [][AccessNext]_vars

\* The rate limiter: block timestamps advance and the owner changes the
\* cooldown, around the submissions and decryption requests of a contract
\* with the registry as constructed.
LimiterNext ==
    \/ \E s \in Actors : Pause(s)
    \/ \E s \in Actors : Unpause(s)
    \/ \E s \in Actors, c \in CooldownChoices : SetCooldown(s, c)
    \/ \E s \in Actors : OpenBatch(s)
    \/ \E s \in Actors : CloseBatch(s)
    \/ \E s \in Actors, d \in InputHandles, f \in InputHandles :
          SubmitEncryptedData(s, d, f)
    \/ \E s \in Actors : RequestAggregateDecryption(s)
    \/ Tick

SpecLimiter == Init /\ [][LimiterNext]_vars

\* ------------------------------------------------- the fold as a function
\* The plaintext behind a handle, as the decryption oracle computes it: the
\* handle's expression is evaluated left to right from position pos.  An
\* input ciphertext <<TagInput, v>> encrypts v; booleans are the words 0, 1.
\* The values stay far below 2^32, the width of a euint32.
PlainOp(op, a, b) ==
    IF op = OpAdd THEN a + b
    ELSE IF op = OpOr THEN (IF a = 1 \/ b = 1 THEN 1 ELSE 0)
    ELSE IF op = OpDiv THEN a \div b
    ELSE (IF a >= b THEN 1 ELSE 0)

RECURSIVE DecryptAt(_, _)
DecryptAt(h, pos) ==
    IF h[pos] \in {TagTrivial, TagInput}
    THEN [value |-> h[pos + 1], next |-> pos + 2]
    ELSE LET a == DecryptAt(h, pos + 1)
             b == DecryptAt(h, a.next)
         IN  [value |-> PlainOp(h[pos], a.value, b.value), next |-> b.next]

Decrypt(h) == IF IsInitialized(h) THEN DecryptAt(h, 1).value ELSE 0

\* The oracle's answer to a request: the abi-encoded plaintexts of cts, in
\* the order of cts.
OracleCleartexts(cts) == <<Decrypt(cts[1]), Decrypt(cts[2]), Decrypt(cts[3])>>

\* Contents of the two ledger mappings the fold is applied to.
FoldLen == 3
FoldValues == {10, 20, 30, 150}
FoldDataHandles == {<<TagInput, v>> : v \in FoldValues}
FoldFlagHandles == {<<TagInput, 0>>, <<TagInput, 1>>}

\* The contract as constructed over a ledger of n contributions.
FoldInit ==
    /\ owner = Deployer
    /\ isProvider = [a \in Actors |-> a = Deployer]
    /\ lastSubmissionTime = [a \in Actors |-> 0]
    /\ lastDecryptionRequestTime = [a \in Actors |-> 0]
    /\ cooldownSeconds = DefaultCooldown
    /\ paused = FALSE
    /\ currentBatchId = 1
    /\ batchOpen = FALSE
    /\ decryptionContexts = [r \in 0..MaxRequests |-> DefaultContext]
    /\ \E n \in 1..FoldLen :
          /\ dataCount = n
          /\ encryptedData \in [1..n -> FoldDataHandles]
          /\ encryptedFlags \in [1..n -> FoldFlagHandles]
    /\ now = DeployTime
    /\ nextRequestId = 1
    /\ events = <<>>
    /\ lastCall = Call("constructor", Deployer, 0, "ok", "ProviderAdded")

\* The fold at request time, the oracle decrypting the three ciphertexts it
\* was handed, and the fold and decoding at callback time.
FoldNext ==
    \/ \E s \in Actors : RequestAggregateDecryption(s)
    \/ \E r \in 1..MaxRequests :
          MyCallback(r, OracleCleartexts(FoldCiphertexts(encryptedData, encryptedFlags,
                                                         dataCount)), TRUE)

SpecFold == FoldInit /\ [][FoldNext]_vars

\* ============================================================== properties
\* Everything a transaction can change: storage, the oracle and the event log.
contractState == <<storage, now, nextRequestId, events>>

RequestIds == 0..MaxRequests

\* Positions of the events of one kind for a request id.
EventsOf(name, r) ==
    {i \in DOMAIN events : events[i].name = name /\ events[i].requestId = r}

Requested(r) == EventsOf("DecryptionRequested", r) # {}

Finalized(r) == EventsOf("DecryptionCompleted", r) # {}

\* dataCount when the request r was issued.
RequestedSize(r) == events[CHOOSE i \in EventsOf("DecryptionRequested", r) : TRUE].ledgerSize

\* dataCount when the request r was finalized.
FinalizedSize(r) == events[CHOOSE i \in EventsOf("DecryptionCompleted", r) : TRUE].ledgerSize

\* The step is a transaction calling op.
IsCall(op) == lastCall'.op = op

\* ---- C1 ----------------------------------------------------------------
\* C1: once a callback has finalized a request id (its DecryptionCompleted is
\* in the log), every later myCallback for that id reverts with ReplayAttempt,
\* whatever its payload and proof and whatever the ledger has become, and
\* changes nothing; the log never holds two DecryptionCompleted for one id.
C1_ReplayRejected ==
    /\ [](\A r \in RequestIds : Cardinality(EventsOf("DecryptionCompleted", r)) <= 1)
    /\ [][(IsCall("myCallback") /\ Finalized(lastCall'.requestId))
            => (lastCall'.result = "ReplayAttempt" /\ UNCHANGED contractState)]_vars

\* A replayed callback with a verifying proof was rejected after the ledger grew.
C1_Witness ==
    /\ lastCall.op = "myCallback"
    /\ lastCall.result = "ReplayAttempt"
    /\ lastCall.proofOk
    /\ Finalized(lastCall.requestId)
    /\ FinalizedSize(lastCall.requestId) < dataCount

\* ---- C2 ----------------------------------------------------------------
\* C2: a callback for a pending request whose ledger has grown since the
\* request (a contribution was admitted in between) reverts with StateMismatch
\* whether or not its proof verifies; a callback finalizes only when the
\* commitment recomputed from the current ledger equals the stored one, which
\* happens only on the ledger the request was issued on.
C2_StaleCallbackRejected ==
    [][IsCall("myCallback") =>
        LET r == lastCall'.requestId IN
        /\ (Requested(r) /\ ~Finalized(r) /\ RequestedSize(r) < dataCount)
              => lastCall'.result = "StateMismatch"
        /\ lastCall'.result = "ok"
              => /\ Requested(r)
                 /\ RequestedSize(r) = dataCount
                 /\ CurrentStateHash = decryptionContexts[r].stateHash]_vars

\* A callback with a verifying proof was rejected because a contribution
\* arrived after the request.
C2_Witness ==
    /\ lastCall.op = "myCallback"
    /\ lastCall.result = "StateMismatch"
    /\ lastCall.proofOk
    /\ Requested(lastCall.requestId)
    /\ RequestedSize(lastCall.requestId) < dataCount

\* ---- C3 ----------------------------------------------------------------
\* C3: the processed flag of every request id is a latch: once true it is true
\* after every transaction, including later requests that store new contexts.
C3_ProcessedLatch ==
    [][\A r \in RequestIds :
          decryptionContexts[r].processed => decryptionContexts'[r].processed]_vars

\* A request was finalized, then a further request stored a new context.
C3_Witness ==
    /\ Len(events) = 3
    /\ events[2].name = "DecryptionCompleted"
    /\ events[3].name = "DecryptionRequested"
    /\ decryptionContexts[events[2].requestId].processed
    /\ decryptionContexts[events[3].requestId].stateHash # ZeroHash

\* ---- C4 ----------------------------------------------------------------
\* C4: a myCallback that reverts (ReplayAttempt, StateMismatch, InvalidProof)
\* changes nothing, and a processed flag is set only by a myCallback for that
\* id that passed the replay guard, the commitment check and the proof
\* verification, and that emits the DecryptionCompleted of that id.
C4_CallbackAtomic ==
    [][/\ (IsCall("myCallback") /\ lastCall'.result # "ok")
            => /\ lastCall'.result \in {"ReplayAttempt", "StateMismatch", "InvalidProof"}
               /\ UNCHANGED contractState
       /\ \A r \in RequestIds :
            (~decryptionContexts[r].processed /\ decryptionContexts'[r].processed)
            => /\ IsCall("myCallback")
               /\ lastCall'.requestId = r
               /\ lastCall'.result = "ok"
               /\ lastCall'.proofOk
               /\ CurrentStateHash = decryptionContexts[r].stateHash
               /\ Len(events') = Len(events) + 1
               /\ events'[Len(events')].name = "DecryptionCompleted"
               /\ events'[Len(events')].requestId = r]_vars

\* A callback for a pending request was rejected for its proof.
C4_Witness ==
    /\ lastCall.op = "myCallback"
    /\ lastCall.result = "InvalidProof"
    /\ Requested(lastCall.requestId)
    /\ ~decryptionContexts[lastCall.requestId].processed

\* ---- C5 ----------------------------------------------------------------
\* C5: a pending request stays finalizable after an InvalidProof rejection: a
\* myCallback with a verifying proof for an issued, unprocessed request id,
\* on a ledger with the size it had at the request, finalizes it (processed
\* set, its DecryptionCompleted appended), whatever callbacks were rejected
\* before; in particular the retry that follows an InvalidProof rejection.
C5_RetryAfterInvalidProof ==
    [][(/\ IsCall("myCallback")
        /\ lastCall'.proofOk
        /\ Requested(lastCall'.requestId)
        /\ ~decryptionContexts[lastCall'.requestId].processed
        /\ RequestedSize(lastCall'.requestId) = dataCount)
       => /\ lastCall'.result = "ok"
          /\ decryptionContexts'[lastCall'.requestId].processed
          /\ Len(events') = Len(events) + 1
          /\ events'[Len(events')].name = "DecryptionCompleted"
          /\ events'[Len(events')].requestId = lastCall'.requestId]_vars

\* A callback finalized a request right after a callback for the same id was
\* rejected with InvalidProof.
C5_Witness ==
    /\ lastCall.op = "myCallback"
    /\ lastCall.result = "ok"
    /\ lastCall.retryOf = "InvalidProof"
    /\ decryptionContexts[lastCall.requestId].processed

\* ---- C6 ----------------------------------------------------------------
\* C6: the stored contribution ids are exactly 1..dataCount; dataCount changes
\* only by a successful submitEncryptedData, by exactly +1, the contribution
\* being stored under the new dataCount, across batch opens and closes.
C6_SequentialIds ==
    /\ [](/\ DOMAIN encryptedData = 1..dataCount
          /\ DOMAIN encryptedFlags = 1..dataCount)
    /\ [][dataCount' # dataCount
            => /\ IsCall("submitEncryptedData")
               /\ lastCall'.result = "ok"
               /\ dataCount' = dataCount + 1
               /\ DOMAIN encryptedData' = DOMAIN encryptedData \cup {dataCount + 1}
               /\ DOMAIN encryptedFlags' = DOMAIN encryptedFlags \cup {dataCount + 1}]_vars

\* Two contributions were admitted, the second under a later batch id.
C6_Witness ==
    /\ lastCall.op = "submitEncryptedData"
    /\ lastCall.result = "ok"
    /\ dataCount = 2
    /\ currentBatchId = 2

\* ---- C7 ----------------------------------------------------------------
\* C7 as claimed: requestAggregateDecryption reverts with InvalidBatch
\* whenever dataCount = 0 and with BatchClosed whenever the batch is open (and
\* the ledger is not empty), whatever the pause flag and the cooldown are.
C7_AsClaimed ==
    [][IsCall("requestAggregateDecryption")
        => /\ dataCount = 0 => lastCall'.result = "InvalidBatch"
           /\ (dataCount > 0 /\ batchOpen) => lastCall'.result = "BatchClosed"]_vars

\* C7 amended: requestAggregateDecryption never succeeds while the batch is
\* open or the ledger is empty, and the error follows the code's order of
\* checks: Paused when paused; else the requester's cooldown (CooldownActive,
\* or an arithmetic panic when timer + cooldown overflows); else InvalidBatch
\* when dataCount = 0; else BatchClosed when the batch is open.
C7_RequestErrorOrder ==
    [][IsCall("requestAggregateDecryption")
        => LET last == lastDecryptionRequestTime[lastCall'.sender] IN
           /\ (dataCount = 0 \/ batchOpen) => lastCall'.result # "ok"
           /\ paused => lastCall'.result = "Paused"
           /\ (~paused /\ last + cooldownSeconds > UintMax) => lastCall'.result = "Panic"
           /\ (~paused /\ last + cooldownSeconds <= UintMax /\ now < last + cooldownSeconds)
                 => lastCall'.result = "CooldownActive"
           /\ (~paused /\ now >= last + cooldownSeconds /\ dataCount = 0)
                 => lastCall'.result = "InvalidBatch"
           /\ (~paused /\ now >= last + cooldownSeconds /\ dataCount > 0 /\ batchOpen)
                 => lastCall'.result = "BatchClosed"]_vars

\* A request was rejected because the batch is still open.
C7_Witness ==
    /\ lastCall.op = "requestAggregateDecryption"
    /\ lastCall.result = "BatchClosed"
    /\ batchOpen
    /\ dataCount > 0

\* ---- C8 ----------------------------------------------------------------
\* C8: requestAggregateDecryption succeeds only when the batch is closed and
\* dataCount > 0, and a DecryptionContext is stored only by such a request.
C8_RevealOnlyClosedBatch ==
    [][/\ (IsCall("requestAggregateDecryption") /\ lastCall'.result = "ok")
            => (~batchOpen /\ dataCount > 0)
       /\ \A r \in RequestIds :
            (decryptionContexts[r] = DefaultContext /\ decryptionContexts'[r] # DefaultContext)
            => /\ IsCall("requestAggregateDecryption")
               /\ lastCall'.result = "ok"
               /\ lastCall'.requestId = r
               /\ ~batchOpen
               /\ dataCount > 0]_vars

\* A request stored a context for a closed, non-empty batch.
C8_Witness ==
    /\ lastCall.op = "requestAggregateDecryption"
    /\ lastCall.result = "ok"
    /\ decryptionContexts[lastCall.requestId] # DefaultContext
    /\ ~batchOpen
    /\ dataCount > 0

\* ---- C9 ----------------------------------------------------------------
\* The caller of the step's submitEncryptedData is a provider whose timer
\* holds the time of an earlier submission, and the contract is not paused.
C9_Resubmission ==
    /\ IsCall("submitEncryptedData")
    /\ isProvider[lastCall'.sender]
    /\ ~paused
    /\ lastSubmissionTime[lastCall'.sender] > 0

\* C9 as claimed: with t the provider's last submission time, a submission at
\* now < t + cooldownSeconds reverts with CooldownActive, and one at
\* now >= t + cooldownSeconds (provider, not paused, batch open) succeeds and
\* stamps the timer with now.
C9_AsClaimed ==
    [][C9_Resubmission =>
        LET t == lastSubmissionTime[lastCall'.sender] IN
        /\ now < t + cooldownSeconds => lastCall'.result = "CooldownActive"
        /\ (now >= t + cooldownSeconds /\ batchOpen)
              => /\ lastCall'.result = "ok"
                 /\ lastSubmissionTime'[lastCall'.sender] = now]_vars

\* C9 amended: a submission at now < t + cooldownSeconds reverts: with
\* CooldownActive when t + cooldownSeconds fits a uint256, with an arithmetic
\* panic when it overflows.  One at now >= t + cooldownSeconds with a batch
\* open passes the cooldown; it succeeds and stamps the timer with now when
\* both ciphertext handles pass _initIfNeeded (they are uninitialized), and
\* reverts with AlreadyInitialized otherwise.
C9_Cooldown ==
    [][/\ C9_Resubmission =>
            LET t == lastSubmissionTime[lastCall'.sender] IN
            /\ t + cooldownSeconds > UintMax => lastCall'.result = "Panic"
            /\ (t + cooldownSeconds <= UintMax /\ now < t + cooldownSeconds)
                  => lastCall'.result = "CooldownActive"
            /\ (now >= t + cooldownSeconds /\ batchOpen)
                  => /\ lastCall'.result \in {"ok", "AlreadyInitialized"}
                     /\ lastCall'.result = "ok"
                           => lastSubmissionTime'[lastCall'.sender] = now
       /\ \A s \in Actors, d \in InputHandles, f \in InputHandles :
            (/\ IsCall("submitEncryptedData")
             /\ lastCall'.sender = s
             /\ isProvider[s] /\ ~paused /\ batchOpen
             /\ lastSubmissionTime[s] > 0
             /\ now >= lastSubmissionTime[s] + cooldownSeconds
             /\ ~IsInitialized(d) /\ ~IsInitialized(f)
             /\ SubmitEncryptedData(s, d, f))
            => /\ lastCall'.result = "ok"
               /\ lastSubmissionTime'[s] = now]_vars

\* Under the default cooldown a provider's second submission was rejected
\* because less than the cooldown had passed since its first.
C9_Witness ==
    /\ lastCall.op = "submitEncryptedData"
    /\ lastCall.result = "CooldownActive"
    /\ cooldownSeconds = DefaultCooldown
    /\ lastSubmissionTime[lastCall.sender] > 0
    /\ now < lastSubmissionTime[lastCall.sender] + DefaultCooldown

\* ---- C10 ---------------------------------------------------------------
\* C10: submitEncryptedData by an address that is not a provider reverts with
\* NotProvider, whatever the pause flag, the batch state and the timers, and
\* changes nothing.
C10_NonProviderRejected ==
    [][(IsCall("submitEncryptedData") /\ ~isProvider[lastCall'.sender])
        => (lastCall'.result = "NotProvider" /\ UNCHANGED contractState)]_vars

\* A non-provider was rejected while the contract was paused and no batch open.
C10_Witness ==
    /\ lastCall.op = "submitEncryptedData"
    /\ lastCall.result = "NotProvider"
    /\ ~isProvider[lastCall.sender]
    /\ paused
    /\ ~batchOpen

\* ---- C11 ---------------------------------------------------------------
\* The plaintext sum of the stored values with ids 1..n, and the OR of the
\* stored flags, computed from the contributions themselves.
RECURSIVE C11_Sum(_)
C11_Sum(n) == IF n = 0 THEN 0 ELSE C11_Sum(n - 1) + Decrypt(encryptedData[n])

C11_AnyFlag == \E i \in 1..dataCount : Decrypt(encryptedFlags[i]) = 1

C11_Average == C11_Sum(dataCount) \div dataCount

RequestedBatch(r) == events[CHOOSE i \in EventsOf("DecryptionRequested", r) : TRUE].batchId

\* The callback's step runs for a pending request r on the ledger r was issued
\* on, after the owner opened a batch since: the batch is open, or the batch
\* id is no longer the one at request time.
C12_NewBatchCycle(r) ==
    /\ Requested(r) /\ ~Finalized(r)
    /\ RequestedSize(r) = dataCount
    /\ (batchOpen \/ currentBatchId # RequestedBatch(r))

\* C12 as claimed: a callback for a request issued before the owner opened a
\* batch (the open flag or currentBatchId differs from request time, no new
\* contribution) fails with StateMismatch and does not finalize.
C12_AsClaimed ==
    [][(IsCall("myCallback") /\ C12_NewBatchCycle(lastCall'.requestId))
          => /\ lastCall'.result = "StateMismatch"
             /\ ~decryptionContexts'[lastCall'.requestId].processed]_vars

\* C12 amended: the commitment covers the fold's three ciphertext handles and
\* the contract address only, so openBatch / closeBatch between request and
\* callback do not change it: with no new contribution the callback never
\* fails with StateMismatch; it finalizes when its proof verifies and fails
\* with InvalidProof otherwise.  A batch cycle is detected only through a
\* contribution admitted in it.
C12_BatchCycleUndetected ==
    [][(IsCall("myCallback") /\ C12_NewBatchCycle(lastCall'.requestId))
          => /\ CurrentStateHash = decryptionContexts[lastCall'.requestId].stateHash
             /\ lastCall'.result = (IF lastCall'.proofOk THEN "ok" ELSE "InvalidProof")
             /\ decryptionContexts'[lastCall'.requestId].processed = lastCall'.proofOk]_vars

\* A request issued in batch 1 was finalized while batch 2 was open.
C12_Witness ==
    /\ lastCall.op = "myCallback"
    /\ lastCall.result = "ok"
    /\ decryptionContexts[lastCall.requestId].processed
    /\ RequestedSize(lastCall.requestId) = dataCount
    /\ batchOpen
    /\ currentBatchId # RequestedBatch(lastCall.requestId)

\* ---- C13 ---------------------------------------------------------------
\* The request r is pending and its stored commitment is not the commitment
\* of the current ledger.
C13_Stale(r) ==
    /\ Requested(r) /\ ~Finalized(r)
    /\ CurrentStateHash # decryptionContexts[r].stateHash

C14_OwnerOps ==
    {"transferOwnership", "addProvider", "removeProvider", "setCooldown",
     "pause", "unpause", "openBatch", "closeBatch"}

\* C14: an owner-gated function called by anyone but the current owner
\* reverts with NotOwner and leaves owner, provider set, cooldown, pause flag,
\* batch state and everything else unchanged; called by the current owner it
\* is never rejected with NotOwner.  Only a successful transferOwnership
\* changes the owner, and transferOwnership(n) by the owner makes n the owner,
\* so from then on n passes the gate and the previous owner, if different
\* from n, does not.
C14_OwnerGated ==
    [][/\ lastCall'.op \in C14_OwnerOps =>
            /\ lastCall'.sender # owner
                  => /\ lastCall'.result = "NotOwner"
                     /\ UNCHANGED contractState
            /\ lastCall'.sender = owner => lastCall'.result # "NotOwner"
            /\ owner' # owner
                  => /\ lastCall'.op = "transferOwnership"
                     /\ lastCall'.result = "ok"
       /\ \A n \in Actors :
            (/\ IsCall("transferOwnership")
             /\ lastCall'.sender = owner
             /\ TransferOwnership(owner, n))
            => /\ lastCall'.result = "ok"
               /\ owner' = n
               /\ n # owner => owner' # owner]_vars

\* After the deployer transferred ownership, its call of an owner-gated
\* function was rejected with NotOwner.
C14_Witness ==
    /\ lastCall.op \in C14_OwnerOps
    /\ lastCall.result = "NotOwner"
    /\ lastCall.sender = Deployer
    /\ owner # Deployer

\* ---- C15 ---------------------------------------------------------------
\* What the claim's parts share: an admitted submission was made by a
\* provider, not paused, past the caller's cooldown, with a batch open; a
\* provider's submission while paused reverts with Paused; a non-provider's
\* reverts with NotProvider; only addProvider makes an address a provider and
\* removeProvider(p) by the owner leaves p no provider.
C15_Common ==
    /\ IsCall("submitEncryptedData") =>
          LET s == lastCall'.sender IN
          /\ lastCall'.result = "ok"
                => /\ isProvider[s] /\ ~paused /\ batchOpen
                   /\ now >= lastSubmissionTime[s] + cooldownSeconds
                   /\ dataCount' = dataCount + 1
          /\ dataCount' # dataCount => lastCall'.result = "ok"
          /\ (isProvider[s] /\ paused) => lastCall'.result = "Paused"
          /\ ~isProvider[s] => lastCall'.result = "NotProvider"
    /\ \A p \in Actors :
          /\ (~isProvider[p] /\ isProvider'[p])
                => (lastCall'.op = "addProvider" /\ lastCall'.result = "ok")
          /\ (IsCall("removeProvider") /\ lastCall'.sender = owner
                 /\ RemoveProvider(owner, p)) => ~isProvider'[p]

\* C15 as claimed: besides the common parts, a provider's submission while no
\* batch is open (the contract not paused) reverts with BatchClosed.
C15_AsClaimed ==
    [][/\ C15_Common
       /\ IsCall("submitEncryptedData") =>
            ((isProvider[lastCall'.sender] /\ ~paused /\ ~batchOpen)
                => lastCall'.result = "BatchClosed")]_vars

\* C15 amended: besides the common parts, a provider's submission while no
\* batch is open reverts with BatchClosed when the contract is not paused and
\* the caller's cooldown has elapsed; inside the cooldown it reverts with
\* CooldownActive, or with an arithmetic panic when last submission time +
\* cooldown overflows, whether or not a batch is open.
C15_SubmitAdmission ==
    [][/\ C15_Common
       /\ IsCall("submitEncryptedData") =>
            LET s == lastCall'.sender
                t == lastSubmissionTime[s]
            IN  (isProvider[s] /\ ~paused) =>
                  /\ t + cooldownSeconds > UintMax => lastCall'.result = "Panic"
                  /\ (t + cooldownSeconds <= UintMax /\ now < t + cooldownSeconds)
                        => lastCall'.result = "CooldownActive"
                  /\ (now >= t + cooldownSeconds /\ ~batchOpen)
                        => lastCall'.result = "BatchClosed"]_vars

\* The deployer, a provider by construction, was removed from the provider
\* set and its submission was then rejected with NotProvider although a batch
\* was open and the contract not paused.
C15_Witness ==
    /\ lastCall.op = "submitEncryptedData"
    /\ lastCall.result = "NotProvider"
    /\ lastCall.sender = Deployer
    /\ ~isProvider[Deployer]
    /\ batchOpen /\ ~paused

\* ---- C16 ---------------------------------------------------------------
\* The commitment emitted when the request r was issued.
RequestedHash(r) == events[CHOOSE i \in EventsOf("DecryptionRequested", r) : TRUE].payload

\* C16: requestAggregateDecryption and myCallback, failing or not, leave
\* every stored contribution and dataCount unchanged.  When a callback with a
\* verifying proof arrives while the ledger is the one its request was issued
\* on, the commitment recomputed from storage equals the one stored and
\* emitted at request time, so it does not fail with StateMismatch: it
\* finalizes the request, or finds it finalized already (ReplayAttempt).
C16_FoldReadOnly ==
    [][/\ (IsCall("requestAggregateDecryption") \/ IsCall("myCallback"))
             => UNCHANGED <<encryptedData, encryptedFlags, dataCount>>
       /\ (IsCall("myCallback") /\ lastCall'.proofOk
              /\ Requested(lastCall'.requestId)
              /\ RequestedSize(lastCall'.requestId) = dataCount)
             => /\ CurrentStateHash = RequestedHash(lastCall'.requestId)
                /\ decryptionContexts[lastCall'.requestId].stateHash
                      = RequestedHash(lastCall'.requestId)
                /\ lastCall'.result =
                      (IF Finalized(lastCall'.requestId) THEN "ReplayAttempt" ELSE "ok")
                /\ \E i \in DOMAIN events' :
                      /\ events'[i].name = "DecryptionCompleted"
                      /\ events'[i].requestId = lastCall'.requestId
                /\ decryptionContexts'[lastCall'.requestId].processed]_vars

\* The second of two outstanding requests was finalized by a callback with a
\* verifying proof on the ledger it was issued on.
C16_Witness ==
    /\ lastCall.op = "myCallback"
    /\ lastCall.result = "ok"
    /\ lastCall.proofOk
    /\ RequestedSize(lastCall.requestId) = dataCount
    /\ CurrentStateHash = RequestedHash(lastCall.requestId)
    /\ lastCall.requestId = 2
    /\ Requested(1) /\ ~Finalized(1)

\* ---- C17 ---------------------------------------------------------------
\* C17: the stored context of an issued request r is changed only by a
\* successful myCallback(r), and only in processed, from false to true.  No
\* other step (a submission, a batch or admin call, a request, a failing
\* callback, a callback for another id) changes r's batchId, stateHash or
\* processed, so a request without a callback stays unprocessed.
C17_ContextFrame ==
    [][\A r \in RequestIds :
          (Requested(r) /\ decryptionContexts'[r] # decryptionContexts[r])
             => /\ IsCall("myCallback")
                /\ lastCall'.requestId = r
                /\ lastCall'.result = "ok"
                /\ ~decryptionContexts[r].processed
                /\ decryptionContexts'[r] =
                      [decryptionContexts[r] EXCEPT !.processed = TRUE]]_vars

\* Of two outstanding requests the second was finalized first; the callback
\* finalizing the first then left the second's context as it was.
C17_Witness ==
    /\ lastCall.op = "myCallback"
    /\ lastCall.result = "ok"
    /\ lastCall.requestId = 1
    /\ Finalized(2)
    /\ \E i \in EventsOf("DecryptionCompleted", 1), j \in EventsOf("DecryptionCompleted", 2) :
          j < i
    /\ decryptionContexts[1].processed /\ decryptionContexts[2].processed

\* ---- C18 ---------------------------------------------------------------
\* A successful submission reports the contribution under the batch id
\* current when it is submitted, with the id it is stored under.
C18_ReportedBatch ==
    (IsCall("submitEncryptedData") /\ lastCall'.result = "ok")
       => /\ lastCall'.emitted = "DataSubmitted"
          /\ lastCall'.args = <<lastCall'.sender, currentBatchId, dataCount + 1>>
          /\ currentBatchId' = currentBatchId

\* C18 as claimed: openBatch by the owner while a batch is open increases
\* currentBatchId by exactly 1, leaves the batch open and leaves dataCount and
\* the stored contributions unchanged; later contributions are reported under
\* the batch id then current.
C18_AsClaimed ==
    [][/\ (IsCall("openBatch") /\ lastCall'.sender = owner /\ batchOpen)
             => /\ currentBatchId' = currentBatchId + 1
                /\ batchOpen'
                /\ UNCHANGED <<encryptedData, encryptedFlags, dataCount>>
       /\ C18_ReportedBatch]_vars

\* C18 amended: openBatch by the owner while a batch is open and the contract
\* is not paused succeeds, increases currentBatchId by exactly 1 in the same
\* step in which the batch stays open, announces the new id and changes
\* nothing else; while the contract is paused it reverts with Paused and
\* changes nothing.  Later contributions are reported under the batch id then
\* current.
C18_OpenWhileOpen ==
    [][/\ (IsCall("openBatch") /\ lastCall'.sender = owner /\ batchOpen /\ ~paused)
             => /\ lastCall'.result = "ok"
                /\ currentBatchId' = currentBatchId + 1
                /\ batchOpen'
                /\ lastCall'.args = <<currentBatchId + 1>>
                /\ UNCHANGED <<encryptedData, encryptedFlags, dataCount>>
                /\ UNCHANGED <<owner, isProvider, lastSubmissionTime,
                               lastDecryptionRequestTime, cooldownSeconds, paused,
                               decryptionContexts, now, nextRequestId, events>>
       /\ (IsCall("openBatch") /\ lastCall'.sender = owner /\ batchOpen /\ paused)
             => /\ lastCall'.result = "Paused"
                /\ UNCHANGED contractState
       /\ C18_ReportedBatch]_vars

\* After the owner opened batch 2 over the open batch 1, the second
\* contribution was stored under id 2 and reported under batch 2.
C18_Witness ==
    /\ lastCall.op = "submitEncryptedData"
    /\ lastCall.result = "ok"
    /\ lastCall.args = <<lastCall.sender, 2, 2>>
    /\ currentBatchId = 2 /\ batchOpen
    /\ dataCount = 2

\* ---- C19 ---------------------------------------------------------------
\* C19: a successful requestAggregateDecryption stores, under the id the
\* oracle returned, the context (batchId = currentBatchId, stateHash = the
\* commitment of the fold of the current ledger, processed = false), emits
\* DecryptionRequested with the same id, batch id and commitment, and stamps
\* the requester's decryption-request timer with block.timestamp.  The
\* DecryptionCompleted of a finalization carries the batch id recorded at
\* request time, whatever the batch id at callback time.
C19_RequestRecord ==
    [][/\ (IsCall("requestAggregateDecryption") /\ lastCall'.result = "ok")
             => LET r == lastCall'.requestId IN
                /\ r = nextRequestId
                /\ decryptionContexts'[r] =
                      [batchId |-> currentBatchId,
                       stateHash |-> HashCiphertexts(FoldCiphertexts(encryptedData,
                                                                     encryptedFlags,
                                                                     dataCount)),
                       processed |-> FALSE]
                /\ \A q \in RequestIds \ {r} :
                      decryptionContexts'[q] = decryptionContexts[q]
                /\ lastDecryptionRequestTime' =
                      [lastDecryptionRequestTime EXCEPT ![lastCall'.sender] = now]
                /\ events'[Len(events')].name = "DecryptionRequested"
                /\ events'[Len(events')].requestId = r
                /\ events'[Len(events')].batchId = currentBatchId
                /\ events'[Len(events')].payload = decryptionContexts'[r].stateHash
       /\ (IsCall("myCallback") /\ lastCall'.result = "ok")
             => LET r == lastCall'.requestId IN
                /\ Len(events') = Len(events) + 1
                /\ events'[Len(events')].name = "DecryptionCompleted"
                /\ events'[Len(events')].requestId = r
                /\ events'[Len(events')].batchId = RequestedBatch(r)
                /\ decryptionContexts'[r].batchId = RequestedBatch(r)]_vars

\* A request issued in batch 1 was finalized when the current batch was 2,
\* and its DecryptionCompleted carries batch id 1.
C19_Witness ==
    /\ lastCall.op = "myCallback"
    /\ lastCall.result = "ok"
    /\ currentBatchId = 2
    /\ events[Len(events)].name = "DecryptionCompleted"
    /\ events[Len(events)].batchId = 1
    /\ lastDecryptionRequestTime # [a \in Actors |-> 0]

\* ---- C20 ---------------------------------------------------------------
\* C20: the two timers are kept per purpose and per actor.  A successful
\* submission stamps lastSubmissionTime of its caller and changes no other
\* timer entry; a successful request stamps lastDecryptionRequestTime of its
\* caller and changes no other timer entry; no other step changes a timer.
\* Whether a call is throttled depends on the caller's timer for that purpose
\* alone: a request past the caller's own request timer is not rejected by the
\* cooldown although the caller has just submitted, and a submission past the
\* caller's own submission timer is not although the caller has just
\* requested.
C20_TimersIndependent ==
    [][/\ lastSubmissionTime' # lastSubmissionTime
             => /\ IsCall("submitEncryptedData") /\ lastCall'.result = "ok"
                /\ lastSubmissionTime' =
                      [lastSubmissionTime EXCEPT ![lastCall'.sender] = now]
       /\ lastDecryptionRequestTime' # lastDecryptionRequestTime
             => /\ IsCall("requestAggregateDecryption") /\ lastCall'.result = "ok"
                /\ lastDecryptionRequestTime' =
                      [lastDecryptionRequestTime EXCEPT ![lastCall'.sender] = now]
       /\ (IsCall("submitEncryptedData") /\ lastCall'.result = "ok")
             => UNCHANGED lastDecryptionRequestTime
       /\ (IsCall("requestAggregateDecryption") /\ lastCall'.result = "ok")
             => UNCHANGED lastSubmissionTime
       /\ IsCall("requestAggregateDecryption")
             => (lastCall'.result \in {"CooldownActive", "Panic"}
                   <=> (~paused /\ now < lastDecryptionRequestTime[lastCall'.sender]
                                           + cooldownSeconds))
       /\ IsCall("submitEncryptedData")
             => (lastCall'.result \in {"CooldownActive", "Panic"}
                   <=> (isProvider[lastCall'.sender] /\ ~paused
                        /\ now < lastSubmissionTime[lastCall'.sender]
                                   + cooldownSeconds))]_vars

\* Under the default cooldown an actor's request succeeded in the block of its
\* own submission.
C20_Witness ==
    /\ lastCall.op = "requestAggregateDecryption"
    /\ lastCall.result = "ok"
    /\ cooldownSeconds = DefaultCooldown
    /\ lastSubmissionTime[lastCall.sender] = now
    /\ lastDecryptionRequestTime[lastCall.sender] = now

\* ---- C21 ---------------------------------------------------------------
\* C21: the ledger is append-only.  In every step the data handle and the
\* flag handle stored under each id 1..dataCount stay what they were, no id
\* disappears and dataCount does not decrease; the ledger changes only by a
\* successful submission, which adds the one id dataCount + 1.
C21_AppendOnly ==
    [][/\ dataCount' >= dataCount
       /\ \A i \in 1..dataCount :
             /\ i \in DOMAIN encryptedData' /\ i \in DOMAIN encryptedFlags'
             /\ encryptedData'[i] = encryptedData[i]
             /\ encryptedFlags'[i] = encryptedFlags[i]
       /\ <<encryptedData, encryptedFlags, dataCount>>'
             # <<encryptedData, encryptedFlags, dataCount>>
             => /\ IsCall("submitEncryptedData") /\ lastCall'.result = "ok"
                /\ dataCount' = dataCount + 1
                /\ DOMAIN encryptedData' = DOMAIN encryptedData \cup {dataCount + 1}
                /\ DOMAIN encryptedFlags' = DOMAIN encryptedFlags \cup {dataCount + 1}
       /\ (IsCall("submitEncryptedData") /\ lastCall'.result = "ok")
             => dataCount' = dataCount + 1]_vars

\* With two contributions stored, the owner closed the batch and the ledger
\* still holds ids 1 and 2.
C21_Witness ==
    /\ lastCall.op = "closeBatch"
    /\ lastCall.result = "ok"
    /\ dataCount = 2
    /\ DOMAIN encryptedData = {1, 2}
    /\ DOMAIN encryptedFlags = {1, 2}

\* ---- C22 ---------------------------------------------------------------
\* C22: addProvider(a) by the owner succeeds and leaves a a provider; when a
\* is a provider already it changes no state and emits no event, otherwise it
\* emits ProviderAdded and changes only a's entry.  removeProvider(a) by the
\* owner succeeds and leaves a no provider; when a is no provider it changes
\* no state and emits no event, otherwise it emits ProviderRemoved and changes
\* only a's entry.  So the second of two equal calls in a row is of the first
\* kind: same state and same events as after one call.
C22_Idempotent ==
    [][\A a \in Actors :
          /\ (IsCall("addProvider") /\ lastCall'.sender = owner /\ AddProvider(owner, a))
                => /\ lastCall'.result = "ok"
                   /\ isProvider'[a]
                   /\ lastCall'.emitted = (IF isProvider[a] THEN "none" ELSE "ProviderAdded")
                   /\ isProvider[a] => UNCHANGED contractState
                   /\ isProvider' = [isProvider EXCEPT ![a] = TRUE]
          /\ (IsCall("removeProvider") /\ lastCall'.sender = owner
                 /\ RemoveProvider(owner, a))
                => /\ lastCall'.result = "ok"
                   /\ ~isProvider'[a]
                   /\ lastCall'.emitted = (IF isProvider[a] THEN "ProviderRemoved" ELSE "none")
                   /\ ~isProvider[a] => UNCHANGED contractState
                   /\ isProvider' = [isProvider EXCEPT ![a] = FALSE]]_vars

\* The owner added an address that was a provider already: the call
\* succeeded without an event.
C22_Witness ==
    /\ lastCall.op = "addProvider"
    /\ lastCall.result = "ok"
    /\ lastCall.emitted = "none"
    /\ \E a \in Actors : isProvider[a]

\* ---- C23 ---------------------------------------------------------------
\* C23: pause by the owner while the contract is paused reverts with Paused
\* and changes nothing (while not paused it succeeds and sets paused).
\* unpause by the owner succeeds in every state, leaves paused = false and
\* changes nothing else, so on an unpaused contract, and as the second of two
\* calls in a row, it leaves the state as it was.
C23_PauseUnpause ==
    [][/\ (IsCall("pause") /\ lastCall'.sender = owner)
             => IF paused
                THEN /\ lastCall'.result = "Paused"
                     /\ UNCHANGED contractState
                ELSE /\ lastCall'.result = "ok"
                     /\ paused'
       /\ (IsCall("unpause") /\ lastCall'.sender = owner)
             => /\ lastCall'.result = "ok"
                /\ ~paused'
                /\ UNCHANGED <<owner, isProvider, lastSubmissionTime,
                               lastDecryptionRequestTime, cooldownSeconds,
                               currentBatchId, batchOpen, decryptionContexts,
                               encryptedData, encryptedFlags, dataCount,
                               now, nextRequestId, events>>
                /\ ~paused => UNCHANGED contractState]_vars

\* The owner's pause of a paused contract was rejected with Paused.
C23_Witness ==
    /\ lastCall.op = "pause"
    /\ lastCall.result = "Paused"
    /\ lastCall.sender = owner
    /\ paused

\* ---- C24 ---------------------------------------------------------------
\* closeBatch by the owner when no batch is open fails and changes no state.
C24_ClosedCase ==
    (IsCall("closeBatch") /\ lastCall'.sender = owner /\ ~batchOpen)
       => /\ lastCall'.result \in {"BatchClosed", "Paused"}
          /\ lastCall'.result = "BatchClosed" <=> ~paused
          /\ UNCHANGED contractState

\* What a successful closeBatch does: the batch is closed, the BatchClosed
\* event is emitted and nothing else changes, in particular not
\* currentBatchId, dataCount and the contributions.
C24_Closes ==
    /\ lastCall'.result = "ok"
    /\ lastCall'.emitted = "BatchClosed"
    /\ ~batchOpen'
    /\ UNCHANGED <<currentBatchId, dataCount, encryptedData, encryptedFlags>>
    /\ UNCHANGED <<owner, isProvider, lastSubmissionTime, lastDecryptionRequestTime,
                   cooldownSeconds, paused, decryptionContexts,
                   now, nextRequestId, events>>

\* C24 as claimed: closeBatch by the owner fails without a state change when
\* no batch is open, and closes the batch when one is open.
C24_AsClaimed ==
    [][/\ C24_ClosedCase
       /\ (IsCall("closeBatch") /\ lastCall'.sender = owner /\ batchOpen)
             => C24_Closes]_vars

\* C24 amended: closeBatch by the owner fails without a state change when no
\* batch is open (with BatchClosed; with Paused while the contract is paused).
\* When a batch is open and the contract is not paused it closes the batch and
\* leaves currentBatchId, dataCount and all contributions unchanged; when a
\* batch is open and the contract is paused it reverts with Paused and the
\* batch stays open.
C24_CloseBatch ==
    [][/\ C24_ClosedCase
       /\ (IsCall("closeBatch") /\ lastCall'.sender = owner /\ batchOpen /\ ~paused)
             => C24_Closes
       /\ (IsCall("closeBatch") /\ lastCall'.sender = owner /\ batchOpen /\ paused)
             => /\ lastCall'.result = "Paused"
                /\ UNCHANGED contractState]_vars

\* The owner's closeBatch was rejected with BatchClosed because no batch was
\* open, with a contribution in the ledger.
C24_Witness ==
    /\ lastCall.op = "closeBatch"
    /\ lastCall.result = "BatchClosed"
    /\ lastCall.sender = owner
    /\ ~batchOpen /\ ~paused
    /\ dataCount > 0

\* ---- C25 ---------------------------------------------------------------
\* C25: a callback for a request id under which no request ever stored a
\* context fails, whatever its cleartexts and proof (the empty context's zero
\* commitment never equals the recomputed one: StateMismatch), sets no
\* processed flag and emits nothing.  Hence every DecryptionCompleted in the
\* log is preceded by a DecryptionRequested for the same id.
C25_UnknownRequest ==
    [][/\ (IsCall("myCallback") /\ ~Requested(lastCall'.requestId))
             => /\ lastCall'.result = "StateMismatch"
                /\ lastCall'.emitted = "none"
                /\ UNCHANGED contractState
                /\ \A r \in RequestIds :
                      decryptionContexts'[r].processed = decryptionContexts[r].processed
       /\ \A i \in DOMAIN events' :
             events'[i].name = "DecryptionCompleted"
                => \E j \in 1..(i - 1) :
                      /\ events'[j].name = "DecryptionRequested"
                      /\ events'[j].requestId = events'[i].requestId]_vars

\* On a closed, non-empty ledger a callback with a verifying proof for an id
\* the contract never issued was rejected with StateMismatch.
C25_Witness ==
    /\ lastCall.op = "myCallback"
    /\ lastCall.proofOk
    /\ ~Requested(lastCall.requestId)
    /\ lastCall.result = "StateMismatch"
    /\ decryptionContexts[lastCall.requestId] = DefaultContext
    /\ dataCount > 0 /\ ~batchOpen

\* ---- C26 ---------------------------------------------------------------
\* C26: currentBatchId is 1 after construction and never decreases.  It
\* changes only by a successful openBatch called while a batch is open, by
\* exactly +1.  openBatch on a closed batch (after closeBatch, or the first
\* one) opens it under the unchanged id, and every admitted contribution is
\* reported under the id current at its submission, so contributions admitted
\* before and after a close and reopen carry one batch id.
C26_BatchId ==
    /\ currentBatchId = 1
    /\ [][/\ currentBatchId' >= currentBatchId
          /\ currentBatchId' # currentBatchId
                => /\ IsCall("openBatch") /\ lastCall'.result = "ok"
                   /\ batchOpen
                   /\ currentBatchId' = currentBatchId + 1
          /\ (IsCall("openBatch") /\ lastCall'.result = "ok" /\ ~batchOpen)
                => /\ currentBatchId' = currentBatchId
                   /\ batchOpen'
                   /\ lastCall'.args = <<currentBatchId>>
          /\ (IsCall("closeBatch") /\ lastCall'.result = "ok")
                => currentBatchId' = currentBatchId
          /\ (IsCall("submitEncryptedData") /\ lastCall'.result = "ok")
                => /\ lastCall'.args[2] = currentBatchId
                   /\ currentBatchId' = currentBatchId]_vars

\* With a contribution of batch 1 in the ledger, the owner reopened the
\* closed batch and the batch id is still 1.
C26_Witness ==
    /\ lastCall.op = "openBatch"
    /\ lastCall.result = "ok"
    /\ lastCall.args = <<1>>
    /\ dataCount > 0
    /\ currentBatchId = 1 /\ batchOpen

\* ---- C27 ---------------------------------------------------------------
\* While the contract is paused: a provider's submission, the owner's
\* openBatch and closeBatch and anyone's decryption request revert with Paused
\* and change nothing; no step changes dataCount, currentBatchId, batchOpen or
\* a timer, or creates a context.  A callback is not rejected for the pause
\* (its outcome is that of its three checks, and it can finalize), and the
\* owner's setCooldown and unpause succeed.
C27_WhilePaused ==
    paused =>
       /\ (IsCall("submitEncryptedData") /\ isProvider[lastCall'.sender])
             => (lastCall'.result = "Paused" /\ UNCHANGED contractState)
       /\ ((IsCall("openBatch") \/ IsCall("closeBatch")) /\ lastCall'.sender = owner)
             => (lastCall'.result = "Paused" /\ UNCHANGED contractState)
       /\ IsCall("requestAggregateDecryption")
             => (lastCall'.result = "Paused" /\ UNCHANGED contractState)
       /\ UNCHANGED <<dataCount, currentBatchId, batchOpen,
                      lastSubmissionTime, lastDecryptionRequestTime,
                      encryptedData, encryptedFlags, nextRequestId>>
       /\ \A r \in RequestIds :
             /\ Requested(r)' = Requested(r)
             /\ decryptionContexts'[r].stateHash = decryptionContexts[r].stateHash
             /\ decryptionContexts'[r].batchId = decryptionContexts[r].batchId
       /\ IsCall("myCallback")
             => lastCall'.result =
                   (IF decryptionContexts[lastCall'.requestId].processed
                       THEN "ReplayAttempt"
                    ELSE IF CurrentStateHash
                               # decryptionContexts[lastCall'.requestId].stateHash
                       THEN "StateMismatch"
                    ELSE IF ~lastCall'.proofOk THEN "InvalidProof"
                    ELSE "ok")
       /\ ((IsCall("setCooldown") \/ IsCall("unpause")) /\ lastCall'.sender = owner)
             => lastCall'.result = "ok"

\* C27 as claimed: as above, and none of the owner's admin calls is rejected
\* for the pause.
C27_AsClaimed ==
    [][/\ C27_WhilePaused
       /\ (paused /\ lastCall'.sender = owner
              /\ lastCall'.op \in {"setCooldown", "pause", "unpause"})
             => lastCall'.result # "Paused"]_vars

\* C27 amended: as above; of the owner's admin calls pause itself is gated by
\* the pause flag: on a paused contract it reverts with Paused.
C27_PauseGate ==
    [][/\ C27_WhilePaused
       /\ (paused /\ lastCall'.sender = owner /\ IsCall("pause"))
             => (lastCall'.result = "Paused" /\ UNCHANGED contractState)]_vars

\* A callback finalized a request while the contract was paused.
C27_Witness ==
    /\ paused
    /\ lastCall.op = "myCallback"
    /\ lastCall.result = "ok"
    /\ decryptionContexts[lastCall.requestId].processed
    /\ Finalized(lastCall.requestId)

\* ---- C28 ---------------------------------------------------------------
\* C28 as claimed: a submission by an actor whose submission timer is 0, and
\* a decryption request by an actor whose request timer is 0, is never
\* rejected with CooldownActive, whatever now and cooldownSeconds.
C28_AsClaimed ==
    [][/\ (IsCall("submitEncryptedData") /\ lastSubmissionTime[lastCall'.sender] = 0)
             => lastCall'.result # "CooldownActive"
       /\ (IsCall("requestAggregateDecryption")
              /\ lastDecryptionRequestTime[lastCall'.sender] = 0)
             => lastCall'.result # "CooldownActive"]_vars

\* C28 amended: a zero timer counts as a call at time 0.  The first
\* submission of a provider on an unpaused contract, and the first decryption
\* request of an actor on an unpaused contract, is rejected with
\* CooldownActive exactly when now < cooldownSeconds; it is never rejected by
\* the cooldown when cooldownSeconds <= now.
C28_FirstCall ==
    [][/\ (IsCall("submitEncryptedData") /\ lastSubmissionTime[lastCall'.sender] = 0
              /\ isProvider[lastCall'.sender] /\ ~paused)
             => /\ lastCall'.result = "CooldownActive" <=> now < cooldownSeconds
                /\ lastCall'.result # "Panic"
       /\ (IsCall("requestAggregateDecryption")
              /\ lastDecryptionRequestTime[lastCall'.sender] = 0 /\ ~paused)
             => /\ lastCall'.result = "CooldownActive" <=> now < cooldownSeconds
                /\ lastCall'.result # "Panic"]_vars

\* With the cooldown set above the current time, the first decryption request
\* of an actor was rejected with CooldownActive, and so had been its first
\* submission.
C28_Witness ==
    /\ lastCall.op = "requestAggregateDecryption"
    /\ lastCall.result = "CooldownActive"
    /\ lastDecryptionRequestTime[lastCall.sender] = 0
    /\ lastSubmissionTime[lastCall.sender] = 0
    /\ now < cooldownSeconds

\* ---- C29 ---------------------------------------------------------------
\* C29: right after construction the owner is the deployer and a provider.
\* A successful transferOwnership changes the owner field and nothing else:
\* provider set, timers, cooldown, pause flag, batch state, ledger and
\* contexts stay as they were, so the previous owner keeps its provider entry
\* and the new owner is a provider exactly if it was one before.
C29_TransferFrame ==
    /\ owner = Deployer /\ isProvider[owner]
    /\ [][(IsCall("transferOwnership") /\ lastCall'.result = "ok")
             => /\ lastCall'.sender = owner
                /\ lastCall'.emitted = "OwnershipTransferred"
                /\ UNCHANGED <<isProvider, lastSubmissionTime,
                               lastDecryptionRequestTime, cooldownSeconds, paused,
                               currentBatchId, batchOpen, encryptedData, encryptedFlags,
                               dataCount, decryptionContexts, now, nextRequestId,
                               events>>
                /\ isProvider'[owner] = isProvider[owner]
                /\ isProvider'[owner'] = isProvider[owner']]_vars

\* The deployer transferred ownership to an address that is no provider: the
\* deployer is still a provider and the new owner is none.
C29_Witness ==
    /\ lastCall.op = "transferOwnership"
    /\ lastCall.result = "ok"
    /\ lastCall.sender = Deployer
    /\ owner # Deployer
    /\ isProvider[Deployer]
    /\ ~isProvider[owner]

============================================================================
